---- MODULE Spec2Model ----
(***************************************************************************)
(* Model of packages/cli-lib/lib/uploadFolder.js: classification of the    *)
(* walked files into five ordered lists, the upload of each list through   *)
(* the process-wide PQueue (concurrency 10), the single retry pass over    *)
(* the transiently failed files and the value uploadFolder returns.        *)
(*                                                                         *)
(* A path is a sequence of segments, a segment is <<stem, ext>> standing   *)
(* for the name "stem.ext" (ext = "" when the name has no dot).            *)
(***************************************************************************)
EXTENDS Naturals, Integers, Sequences, FiniteSets, Bags, TLC

VARIABLES
    input,        \* per invocation: what walk(src), the ignore rules and the fields transformer will do
    budget,       \* how many more upload calls the remote API may fail
    pc,           \* per invocation: position of uploadFolder
    filesByType,  \* per invocation: the five lists returned by getFilesByType
    i,            \* per invocation: loop index of the for loop over filesByType
    failures,     \* per invocation: the failures list
    batch,        \* per invocation: the promise of the queue.addAll being awaited
    results,      \* per invocation: the value returned
    thrown,       \* per invocation: the error raised
    queue,        \* PQueue: tasks waiting for a slot, in FIFO order
    pendingCount, \* PQueue: _pendingCount
    inflight,     \* upload() calls started and not yet finished
    calls,        \* history: bag of upload() invocations
    settled,      \* history: finished upload() calls with their outcome
    firstFatal    \* history: per invocation, the first fatal error an upload() of it raised

vars == <<input, budget, pc, filesByType, i, failures, batch, results, thrown,
          queue, pendingCount, inflight, calls, settled, firstFatal>>

----------------------------------------------------------------------------
(* Bounds of the model *)

\* upload calls the remote API may fail in one behaviour of Spec
MaxFaults == 3

\* upload calls the remote API may fail in one behaviour of SpecPool and of
\* FairSpecCancel
MaxFaultsPool == 1

----------------------------------------------------------------------------
(* Paths *)

Seg(stem, ext) == <<stem, ext>>

\* the src argument of uploadFolder and the dest argument
SrcRoot == << Seg("proj", "") >>
DestRoot == << Seg("remote", "") >>

\* getExt(file): the extension of the last segment
getExt(file) == file[Len(file)][2]

\* path.dirname(file)
dirname(file) == SubSeq(file, 1, Len(file) - 1)

\* the last segment: parts[parts.length - 1]
fileName(file) == file[Len(file)]

\* part.endsWith('.module')
IsModuleFolder(part) == part[2] = "module"

\* parts.find(part => part.endsWith('.module')) is defined
HasModuleFolder(file) == \E k \in 1..Len(file) : IsModuleFolder(file[k])

FieldsJs == Seg("fields", "js")
FieldsJson == Seg("fields", "json")
MetaJson == Seg("meta", "json")

\* isAllowedExtension of ../path: the extension allow-list
AllowedExtensions == {"js", "css", "html", "json", "png", "txt"}
isAllowedExtension(file) == getExt(file) \in AllowedExtensions

\* a file the fields transformer wrote: no file that walk(src) returned
Generated(part) == part \o <<"generated">>

\* convertFieldsJs of ./handleFieldsJs: the path of the static descriptor
\* written for a fields.js, a fields.json that is the transformer's output
convertFieldsJs(file) == dirname(file) \o <<Generated(FieldsJson)>>

\* does root prefix file
HasPrefix(file, root) ==
    /\ Len(root) <= Len(file)
    /\ SubSeq(file, 1, Len(root)) = root

\* file.replace(regex, '') with regex = ^src
StripRoot(file, root) ==
    IF HasPrefix(file, root) THEN SubSeq(file, Len(root) + 1, Len(file)) ELSE file

\* convertToUnixPath(path.join(dest, relativePath))
DestPath(root, file) == DestRoot \o StripRoot(file, root)

----------------------------------------------------------------------------
(* getFilesByType *)

\* positions of the five lists in the array getFilesByType returns:
\* OTHER, BUNDLE_ASSET, STYLE_SCRIPT, TEMPLATE, DATA
CatOther == Len(<<"otherFiles">>)
CatModule == CatOther + Len(<<"moduleFiles">>)
CatCssAndJs == CatModule + Len(<<"cssAndJsFiles">>)
CatTemplate == CatCssAndJs + Len(<<"templateFiles">>)
CatJson == CatTemplate + Len(<<"jsonFiles">>)

Categories == CatOther..CatJson

EmptyLists == [k \in Categories |-> <<>>]

NoError == [kind |-> "none"]

\* the error convertFieldsJs throws for a malformed fields.js
FieldsError(file) == [kind |-> "fields", file |-> file]

\* a directory read that lists no file
readdirNothing(disk, dir) == {}

\* fs.readdirSync(dir, {withFileTypes: true}).filter(item => !item.isDirectory())
\*   .map(item => item.name), on a disk holding the walked files
readdirFiles(disk, dir) == { fileName(p) : p \in { q \in disk : dirname(q) = dir } }

\* a push that appends the file twice
pushTwice(lists, k, file) == [lists EXCEPT ![k] = Append(Append(@, file), file)]

push(lists, k, file) == [lists EXCEPT ![k] = Append(@, file)]

\* a forEach body that looks at the extension before the bundle folder
ClassifyFileByExtension(lists, file, disk) ==
    IF getExt(file) \in {"js", "css"} THEN push(lists, CatCssAndJs, file)
    ELSE IF getExt(file) = "html" THEN push(lists, CatTemplate, file)
    ELSE IF HasModuleFolder(file)
         THEN IF getExt(file) = "json"
              THEN IF \/ fileName(file) = MetaJson
                      \/ /\ fileName(file) = FieldsJson
                         /\ FieldsJs \notin readdirFiles(disk, dirname(file))
                   THEN push(lists, CatModule, file)
                   ELSE lists
              ELSE push(lists, CatModule, file)
    ELSE IF getExt(file) = "json" THEN push(lists, CatJson, file)
    ELSE push(lists, CatOther, file)

\* a forEach body that keeps every JSON file of a bundle folder
ClassifyFileKeepJson(lists, file, disk) ==
    IF HasModuleFolder(file)
    THEN IF fileName(file) = FieldsJs
         THEN push(lists, CatModule, convertFieldsJs(file))
         ELSE push(lists, CatModule, file)
    ELSE IF getExt(file) \in {"js", "css"} THEN push(lists, CatCssAndJs, file)
    ELSE IF getExt(file) = "html" THEN push(lists, CatTemplate, file)
    ELSE IF getExt(file) = "json" THEN push(lists, CatJson, file)
    ELSE push(lists, CatOther, file)

\* the body of files.forEach in getFilesByType, for a file whose conversion
\* (if any) does not throw
ClassifyFile(lists, file, disk) ==
    IF HasModuleFolder(file)
    THEN IF fileName(file) = FieldsJs
         THEN push(lists, CatModule, convertFieldsJs(file))
         ELSE IF getExt(file) = "json"
              THEN LET afterMeta == IF fileName(file) = MetaJson
                                    THEN push(lists, CatModule, file)
                                    ELSE lists
                   IN  IF /\ fileName(file) = FieldsJson
                          /\ FieldsJs \notin readdirFiles(disk, dirname(file))
                       THEN push(afterMeta, CatModule, file)
                       ELSE afterMeta
              ELSE push(lists, CatModule, file)
    ELSE IF getExt(file) \in {"js", "css"} THEN push(lists, CatCssAndJs, file)
    ELSE IF getExt(file) = "html" THEN push(lists, CatTemplate, file)
    ELSE IF getExt(file) = "json" THEN push(lists, CatJson, file)
    ELSE push(lists, CatOther, file)

\* a forEach body that swallows the error of convertFieldsJs
ClassifyNeverThrows(file, bad) == FALSE

\* does the forEach body throw on this file: convertFieldsJs fails
ClassifyThrows(file, bad) ==
    /\ HasModuleFolder(file)
    /\ fileName(file) = FieldsJs
    /\ file \in bad

RECURSIVE ForEachFile(_, _, _, _)
ForEachFile(lists, files, disk, bad) ==
    IF files = <<>> THEN [lists |-> lists, error |-> NoError]
    ELSE IF ClassifyThrows(Head(files), bad)
         THEN [lists |-> lists, error |-> FieldsError(Head(files))]
         ELSE ForEachFile(ClassifyFile(lists, Head(files), disk), Tail(files), disk, bad)

getFilesByType(files, disk, bad) == ForEachFile(EmptyLists, files, disk, bad)

Range(seq) == { seq[k] : k \in 1..Len(seq) }

\* allowedFiles without the ignore filter
allowedFilesNoIgnore(files, ignored) == SelectSeq(files, isAllowedExtension)

\* files.filter(isAllowedExtension).filter(createIgnoreFilter())
allowedFiles(files, ignored) ==
    LET keep(f) == isAllowedExtension(f) /\ f \notin ignored
    IN  SelectSeq(files, keep)

----------------------------------------------------------------------------
(* The process-wide PQueue *)

\* the ceiling of the pool, as a number of in-flight uploads
Ceiling == 10

\* a pool configured with one slot too many
ConcurrencyOneMore == Ceiling + 1

\* new PQueue({concurrency: 10})
Concurrency == 10

\* this._pendingCount < this._concurrency
doesConcurrentAllowAnother(n) == n < Concurrency

\* the key under which an upload() invocation is counted
CallKey(t) == [inv |-> t.inv, pass |-> t.pass, file |-> t.file]

\* P is [queue, pendingCount, inflight, calls].
\* _tryToStartAnother: dequeue the head and run it, if the concurrency allows;
\* running a task calls its function, which calls upload() at once
tryToStartAnother(P) ==
    IF P.queue = <<>> THEN P
    ELSE IF doesConcurrentAllowAnother(P.pendingCount)
         THEN [queue |-> Tail(P.queue),
               pendingCount |-> P.pendingCount + 1,
               inflight |-> P.inflight \cup {Head(P.queue)},
               calls |-> P.calls (+) SetToBag({CallKey(Head(P.queue))})]
         ELSE P

\* queue.add(fn): enqueue, then _tryToStartAnother
add(P, t) == tryToStartAnother([P EXCEPT !.queue = Append(@, t)])

\* queue.addAll(fns): add each function in order
RECURSIVE addAll(_, _)
addAll(P, tasks) ==
    IF tasks = <<>> THEN P ELSE addAll(add(P, Head(tasks)), Tail(tasks))

\* _next, run when a task's function has settled
next(P) == tryToStartAnother([P EXCEPT !.pendingCount = @ - 1])

Pool == [queue |-> queue, pendingCount |-> pendingCount,
         inflight |-> inflight, calls |-> calls]

\* the batch number of the retry pass, after the five category batches
RetryBatch == CatJson + Len(<<"failures">>)

\* Promise.all over n task promises: the promise addAll returns
NewPromiseAll(no, n) ==
    [no |-> no,
     state |-> IF n = 0 THEN "fulfilled" ELSE "pending",
     left |-> n,
     values |-> [k \in 1..n |-> "undefined"],
     error |-> NoError]

\* one of the promises settles: fulfilled with v, or rejected with e. The
\* count of unsettled promises goes on after a rejection, without effect
PromiseAllSettle(p, idx, rejected, v, e) ==
    IF rejected
    THEN IF p.state = "pending" THEN [p EXCEPT !.state = "rejected", !.error = e] ELSE p
    ELSE [p EXCEPT !.values[idx] = v,
                   !.left = @ - 1,
                   !.state = IF p.state = "pending" /\ p.left = 1 THEN "fulfilled" ELSE @]

----------------------------------------------------------------------------
(* uploadFolder *)

Invocations == {"first", "second"}

SUCCESS == "SUCCESS"
FAILURE == "FAILURE"

\* the value of a settled main-pass task
Undefined == [resultType |-> "undefined"]

\* the error upload() rejects with; class is what isFatalError looks at
UploadError(t, class) ==
    [kind |-> class, inv |-> t.inv, pass |-> t.pass, file |-> t.file]

\* isFatalError of ../errorHandlers
isFatalError(error) == error.kind = "fatal"

\* the tasks of one addAll
Task(r, pass, no, idx, file, destPath) ==
    [inv |-> r, pass |-> pass, no |-> no, idx |-> idx, file |-> file, destPath |-> destPath]

\* filesToUpload.map(uploadFile): one task per file, destPath computed here
mainTasks(r, no, files, root) ==
    [k \in 1..Len(files) |-> Task(r, "main", no, k, files[k], DestPath(root, files[k]))]

\* failures.map(({file, destPath}) => ...): one task per entry of failures
retryTasks(r, fl) ==
    [k \in 1..Len(fl) |-> Task(r, "retry", RetryBatch, k, fl[k].file, fl[k].destPath)]

\* uploadFile with the push to failures after the try/catch, not in the catch
uploadFilePushAlways(t, err, fl) ==
    IF err # NoError /\ isFatalError(err)
    THEN [rejected |-> TRUE, value |-> Undefined, error |-> err, failures |-> fl]
    ELSE [rejected |-> FALSE, value |-> Undefined, error |-> NoError,
          failures |-> Append(fl, [file |-> t.file, destPath |-> t.destPath])]

\* uploadFile pushing the failed file twice
uploadFilePushTwice(t, err, fl) ==
    IF err = NoError
    THEN [rejected |-> FALSE, value |-> Undefined, error |-> NoError, failures |-> fl]
    ELSE IF isFatalError(err)
         THEN [rejected |-> TRUE, value |-> Undefined, error |-> err, failures |-> fl]
         ELSE [rejected |-> FALSE, value |-> Undefined, error |-> NoError,
               failures |-> fl \o << [file |-> t.file, destPath |-> t.destPath],
                                     [file |-> t.file, destPath |-> t.destPath] >>]

\* uploadFile without the isFatalError check: every error schedules a retry
uploadFileSwallowFatal(t, err, fl) ==
    IF err = NoError
    THEN [rejected |-> FALSE, value |-> Undefined, error |-> NoError, failures |-> fl]
    ELSE [rejected |-> FALSE, value |-> Undefined, error |-> NoError,
          failures |-> Append(fl, [file |-> t.file, destPath |-> t.destPath])]

\* uploadFile without the push: a transient error is logged and forgotten
uploadFileDropFailure(t, err, fl) ==
    IF err # NoError /\ isFatalError(err)
    THEN [rejected |-> TRUE, value |-> Undefined, error |-> err, failures |-> fl]
    ELSE [rejected |-> FALSE, value |-> Undefined, error |-> NoError, failures |-> fl]

\* uploadFile whose push is a read of the list followed by a write of a new
\* list: the entries pushed since the task started are lost
uploadFileLostUpdate(t, err, fl) ==
    IF err = NoError
    THEN [rejected |-> FALSE, value |-> Undefined, error |-> NoError, failures |-> fl]
    ELSE IF isFatalError(err)
         THEN [rejected |-> TRUE, value |-> Undefined, error |-> err, failures |-> fl]
         ELSE [rejected |-> FALSE, value |-> Undefined, error |-> NoError,
               failures |-> << [file |-> t.file, destPath |-> t.destPath] >>]

\* the function uploadFile returns, from the point where upload() has
\* settled: err is NoError when it resolved
uploadFile(t, err, fl) ==
    IF err = NoError
    THEN [rejected |-> FALSE, value |-> Undefined, error |-> NoError, failures |-> fl]
    ELSE IF isFatalError(err)
         THEN [rejected |-> TRUE, value |-> Undefined, error |-> err, failures |-> fl]
         ELSE [rejected |-> FALSE, value |-> Undefined, error |-> NoError,
               failures |-> Append(fl, [file |-> t.file, destPath |-> t.destPath])]

\* the retry task reporting a successful retry as FAILURE
retryFileSuccessAsFailure(t, err, fl) ==
    IF err = NoError
    THEN [rejected |-> FALSE, error |-> NoError, failures |-> fl,
          value |-> [resultType |-> FAILURE, error |-> NoError, file |-> t.file]]
    ELSE IF isFatalError(err)
         THEN [rejected |-> TRUE, value |-> Undefined, error |-> err, failures |-> fl]
         ELSE [rejected |-> FALSE, error |-> NoError, failures |-> fl,
               value |-> [resultType |-> FAILURE, error |-> err, file |-> t.file]]

\* the retry task reporting a failed retry without its error
retryFileErrorLost(t, err, fl) ==
    IF err = NoError
    THEN [rejected |-> FALSE, error |-> NoError, failures |-> fl,
          value |-> [resultType |-> SUCCESS, error |-> NoError, file |-> t.file]]
    ELSE IF isFatalError(err)
         THEN [rejected |-> TRUE, value |-> Undefined, error |-> err, failures |-> fl]
         ELSE [rejected |-> FALSE, error |-> NoError, failures |-> fl,
               value |-> [resultType |-> FAILURE, error |-> NoError, file |-> t.file]]

\* the retry task without the rethrow: a fatal error is reported as FAILURE
retryFileNoRethrow(t, err, fl) ==
    IF err = NoError
    THEN [rejected |-> FALSE, error |-> NoError, failures |-> fl,
          value |-> [resultType |-> SUCCESS, error |-> NoError, file |-> t.file]]
    ELSE [rejected |-> FALSE, error |-> NoError, failures |-> fl,
          value |-> [resultType |-> FAILURE, error |-> err, file |-> t.file]]

\* the retry task without the isFatalError check: every error is rethrown
retryFileThrowAny(t, err, fl) ==
    IF err = NoError
    THEN [rejected |-> FALSE, error |-> NoError, failures |-> fl,
          value |-> [resultType |-> SUCCESS, error |-> NoError, file |-> t.file]]
    ELSE [rejected |-> TRUE, value |-> Undefined, error |-> err, failures |-> fl]

\* the function of a retry task, from the point where upload() has settled
retryFile(t, err, fl) ==
    IF err = NoError
    THEN [rejected |-> FALSE, error |-> NoError, failures |-> fl,
          value |-> [resultType |-> SUCCESS, error |-> NoError, file |-> t.file]]
    ELSE IF isFatalError(err)
         THEN [rejected |-> TRUE, value |-> Undefined, error |-> err, failures |-> fl]
         ELSE [rejected |-> FALSE, error |-> NoError, failures |-> fl,
               value |-> [resultType |-> FAILURE, error |-> err, file |-> t.file]]

SetPool(P) ==
    /\ queue' = P.queue
    /\ pendingCount' = P.pendingCount
    /\ inflight' = P.inflight
    /\ calls' = P.calls

\* await queue.addAll(tasks) up to the await
SubmitBatch(r, no, tasks) ==
    /\ SetPool(addAll(Pool, tasks))
    /\ batch' = [batch EXCEPT ![r] = NewPromiseAll(no, Len(tasks))]

NotCalled == [called |-> FALSE]

\* an await of uploadFolder whose promise has settled: its continuation is a
\* microtask, run before the event loop takes the next callback
AwaitSettled(r) ==
    /\ pc[r] \in {"main", "retry"}
    /\ batch[r].state \in {"fulfilled", "rejected"}

\* no continuation is waiting: the event loop takes the next callback
EventLoopIdle == \A r \in Invocations : ~AwaitSettled(r)

\* may the remote API fail the upload of this task
MayFail(t) == input[t.inv].flakyAll \/ t.file \in input[t.inv].flaky

\* uploadFolder(accountId, src, dest, options) is called: walk, filter,
\* classify, then the first addAll of the loop
Call(r) ==
    /\ EventLoopIdle
    /\ pc[r] = "idle"
    /\ input[r].called
    /\ LET files == input[r].walked
           byType == getFilesByType(allowedFiles(files, input[r].ignored),
                                    Range(files), input[r].bad)
       IN  IF byType.error # NoError
           THEN /\ pc' = [pc EXCEPT ![r] = "raised"]
                /\ thrown' = [thrown EXCEPT ![r] = byType.error]
                /\ UNCHANGED <<filesByType, i, failures, batch, queue, pendingCount,
                               inflight, calls>>
           ELSE /\ pc' = [pc EXCEPT ![r] = "main"]
                /\ filesByType' = [filesByType EXCEPT ![r] = byType.lists]
                /\ failures' = [failures EXCEPT ![r] = <<>>]
                /\ i' = [i EXCEPT ![r] = CatOther]
                /\ SubmitBatch(r, CatOther,
                               mainTasks(r, CatOther, byType.lists[CatOther], input[r].src))
                /\ UNCHANGED thrown
    /\ UNCHANGED <<input, budget, results, settled, firstFatal>>

\* addAll not awaited: the loop goes on while the batch is pending
BatchNotAwaited(p) == p.state \in {"pending", "fulfilled"}

\* has the promise being awaited been fulfilled
BatchDrained(p) == p.state = "fulfilled"

\* the await of the for loop resumes: the next category, or after the last
\* one the addAll of the retry tasks
ResumeMain(r) ==
    /\ pc[r] = "main"
    /\ BatchDrained(batch[r])
    /\ i' = [i EXCEPT ![r] = @ + 1]
    /\ IF i[r] + 1 <= CatJson
       THEN /\ SubmitBatch(r, i[r] + 1,
                           mainTasks(r, i[r] + 1, filesByType[r][i[r] + 1], input[r].src))
            /\ pc' = pc
       ELSE /\ SubmitBatch(r, RetryBatch, retryTasks(r, failures[r]))
            /\ pc' = [pc EXCEPT ![r] = "retry"]
    /\ UNCHANGED <<input, budget, filesByType, failures, results, thrown, settled, firstFatal>>

\* the await of the retry addAll resumes: return results
Return(r) ==
    /\ pc[r] = "retry"
    /\ BatchDrained(batch[r])
    /\ results' = [results EXCEPT ![r] = batch[r].values]
    /\ pc' = [pc EXCEPT ![r] = "returned"]
    /\ UNCHANGED <<input, budget, filesByType, i, failures, batch, thrown,
                   queue, pendingCount, inflight, calls, settled, firstFatal>>

\* a throw that also empties the pool's queue
RaiseAndClear(r) ==
    /\ pc[r] \in {"main", "retry"}
    /\ batch[r].state = "rejected"
    /\ thrown' = [thrown EXCEPT ![r] = batch[r].error]
    /\ pc' = [pc EXCEPT ![r] = "raised"]
    /\ queue' = <<>>
    /\ UNCHANGED <<input, budget, filesByType, i, failures, batch, results,
                   pendingCount, inflight, calls, settled, firstFatal>>

\* an await resumes with the rejection of addAll: uploadFolder throws
Raise(r) ==
    /\ pc[r] \in {"main", "retry"}
    /\ batch[r].state = "rejected"
    /\ thrown' = [thrown EXCEPT ![r] = batch[r].error]
    /\ pc' = [pc EXCEPT ![r] = "raised"]
    /\ UNCHANGED <<input, budget, filesByType, i, failures, batch, results,
                   queue, pendingCount, inflight, calls, settled, firstFatal>>

\* a settle that pushes to one failures list of the module, which every
\* invocation reads
SettleSharedFailures(t, err) ==
    LET r == t.inv
        out == IF t.pass = "main" THEN uploadFile(t, err, failures[r])
                                  ELSE retryFile(t, err, failures[r])
    IN  /\ settled' = settled \cup {[task |-> t, error |-> err]}
        /\ failures' = [q \in Invocations |-> out.failures]
        /\ batch' = [batch EXCEPT ![r] =
                        IF batch[r].no = t.no
                        THEN PromiseAllSettle(@, t.idx, out.rejected, out.value, out.error)
                        ELSE @]
        /\ SetPool(next([Pool EXCEPT !.inflight = @ \ {t}]))
        /\ UNCHANGED <<input, pc, filesByType, i, results, thrown>>

\* the upload() call of task t settles with err; the task's function runs
\* to its end, its promise settles, and the pool's _next starts another
Settle(t, err) ==
    LET r == t.inv
        out == IF t.pass = "main" THEN uploadFile(t, err, failures[r])
                                  ELSE retryFile(t, err, failures[r])
    IN  /\ settled' = settled \cup {[task |-> t, error |-> err]}
        /\ failures' = [failures EXCEPT ![r] = out.failures]
        /\ batch' = [batch EXCEPT ![r] =
                        IF batch[r].no = t.no
                        THEN PromiseAllSettle(@, t.idx, out.rejected, out.value, out.error)
                        ELSE @]
        /\ SetPool(next([Pool EXCEPT !.inflight = @ \ {t}]))
        /\ UNCHANGED <<input, pc, filesByType, i, results, thrown>>

UploadSucceeds(t) ==
    /\ EventLoopIdle
    /\ t \in inflight
    /\ Settle(t, NoError)
    /\ UNCHANGED <<budget, firstFatal>>

UploadFailsTransient(t) ==
    /\ EventLoopIdle
    /\ t \in inflight
    /\ MayFail(t)
    /\ budget > 0
    /\ budget' = budget - 1
    /\ Settle(t, UploadError(t, "transient"))
    /\ UNCHANGED firstFatal

UploadFailsFatal(t) ==
    /\ EventLoopIdle
    /\ t \in inflight
    /\ MayFail(t)
    /\ budget > 0
    /\ budget' = budget - 1
    /\ Settle(t, UploadError(t, "fatal"))
    /\ firstFatal' = [firstFatal EXCEPT ![t.inv] =
                         IF @ = NoError THEN UploadError(t, "fatal") ELSE @]

Next ==
    \/ \E r \in Invocations : Call(r)
    \/ \E r \in Invocations : ResumeMain(r)
    \/ \E r \in Invocations : Return(r)
    \/ \E r \in Invocations : Raise(r)
    \/ \E t \in inflight : UploadSucceeds(t)
    \/ \E t \in inflight : UploadFailsTransient(t)
    \/ \E t \in inflight : UploadFailsFatal(t)

----------------------------------------------------------------------------
(* hasUploadErrors *)

\* results.every(result => result.resultType === FAILURE)
RECURSIVE hasUploadErrorsEvery(_)
hasUploadErrorsEvery(list) ==
    IF list = <<>> THEN TRUE
    ELSE IF Head(list).resultType = FAILURE THEN hasUploadErrorsEvery(Tail(list))
    ELSE FALSE

\* results.some(result => result.resultType === FileUploadResultType.FAILURE):
\* the scan stops at the first entry the test accepts
RECURSIVE hasUploadErrors(_)
hasUploadErrors(list) ==
    IF list = <<>> THEN FALSE
    ELSE IF Head(list).resultType = FAILURE THEN TRUE
    ELSE hasUploadErrors(Tail(list))

----------------------------------------------------------------------------
(* What uploadFolder is called on *)

File(rel) == SrcRoot \o rel

\* the tree {a.js, b.module/meta.json, b.module/fields.js, b.module/fields.json, c.html}
SiteTree ==
    << File(<<Seg("a", "js")>>),
       File(<<Seg("b", "module"), MetaJson>>),
       File(<<Seg("b", "module"), FieldsJs>>),
       File(<<Seg("b", "module"), FieldsJson>>),
       File(<<Seg("c", "html")>>) >>

\* a tree with a file for each of the five lists, a file whose extension is
\* not allowed and a file the ignore rules match
AssetTree ==
    << File(<<Seg("data", "json")>>),
       File(<<Seg("index", "html")>>),
       File(<<Seg("b", "module"), Seg("module", "css")>>),
       File(<<Seg("notes", "md")>>),
       File(<<Seg("tmp", ""), Seg("skip", "js")>>),
       File(<<Seg("logo", "png")>>) >>

\* a bundle whose three assets upload concurrently, a JSON file the bundle
\* may not hold, and a template
ModuleTree ==
    << File(<<Seg("m", "module"), MetaJson>>),
       File(<<Seg("m", "module"), Seg("module", "html")>>),
       File(<<Seg("m", "module"), Seg("extra", "json")>>),
       File(<<Seg("m", "module"), Seg("module", "css")>>),
       File(<<Seg("page", "html")>>) >>

AssetIgnored == { File(<<Seg("tmp", ""), Seg("skip", "js")>>) }

\* one more stylesheet than the pool has slots
WideTree == [k \in 1..(Concurrency + 1) |-> File(<<Seg(ToString(k), "css")>>)]

\* uploadFolder called on src, where walk(src) returns walked, the ignore
\* rules match ignored, the transformer fails on bad, and the remote API may
\* fail the upload of the files in flaky
ScenarioFlaky(walked, ignored, bad, flaky) ==
    [called |-> TRUE, walked |-> walked, ignored |-> ignored, bad |-> bad, src |-> SrcRoot,
     flakyAll |-> FALSE, flaky |-> flaky]

\* the same, where the remote API may fail any upload
Scenario(walked, ignored, bad) ==
    [called |-> TRUE, walked |-> walked, ignored |-> ignored, bad |-> bad, src |-> SrcRoot,
     flakyAll |-> TRUE, flaky |-> {}]

Scenarios ==
    { Scenario(SiteTree, {}, {}),
      Scenario(SiteTree, {}, { File(<<Seg("b", "module"), FieldsJs>>) }),
      Scenario(AssetTree, AssetIgnored, {}),
      Scenario(ModuleTree, {}, {}) }

NoPromise ==
    [no |-> CatOther - 1, state |-> "none", left |-> Len(<<>>), values |-> <<>>,
     error |-> NoError]

InitWith(inputs, faults) ==
    /\ input \in inputs
    /\ budget = faults
    /\ pc = [r \in Invocations |-> "idle"]
    /\ filesByType = [r \in Invocations |-> EmptyLists]
    /\ i = [r \in Invocations |-> CatOther]
    /\ failures = [r \in Invocations |-> <<>>]
    /\ batch = [r \in Invocations |-> NoPromise]
    /\ results = [r \in Invocations |-> <<>>]
    /\ thrown = [r \in Invocations |-> NoError]
    /\ queue = <<>>
    /\ pendingCount = Len(<<>>)
    /\ inflight = {}
    /\ calls = EmptyBag
    /\ settled = {}
    /\ firstFatal = [r \in Invocations |-> NoError]

\* one invocation of uploadFolder in the process
Init ==
    InitWith({ [first |-> s, second |-> NotCalled] : s \in Scenarios }, MaxFaults)

Spec == Init /\ [][Next]_vars

\* one invocation on a tree that fills the pool
InitPool ==
    InitWith({ [first |-> Scenario(WideTree, {}, {}), second |-> NotCalled] }, MaxFaultsPool)

SpecPool == InitPool /\ [][Next]_vars

\* every upload() call settles and every resumed await runs
FairSpec == Init /\ [][Next]_vars /\ WF_vars(Next)

\* two more stylesheets than the pool has slots: when one upload settles,
\* a task is started and a task still waits
CancelTree == [k \in 1..(Concurrency + Len(<<"waits", "waits">>)) |-> File(<<Seg(ToString(k), "css")>>)]

\* one invocation on that tree, where the remote API may fail the upload of
\* the first file only, MaxFaultsPool times
InitCancel ==
    InitWith({ [first |-> ScenarioFlaky(CancelTree, {}, {}, {CancelTree[1]}),
                second |-> NotCalled] }, MaxFaultsPool)

\* an upload() call settles
UploadSettles ==
    \E t \in inflight : UploadSucceeds(t) \/ UploadFailsTransient(t) \/ UploadFailsFatal(t)

\* the await of a rejected addAll resumes: uploadFolder throws
AwaitThrows == \E r \in Invocations : Raise(r)

\* every upload() call settles and every rejected await throws
FairSpecCancel ==
    InitCancel /\ [][Next]_vars /\ WF_vars(UploadSettles) /\ WF_vars(AwaitThrows)

\* upload calls the remote API may fail in one behaviour of SpecOverlap
MaxFaultsOverlap == 3

\* two stylesheets, uploaded in one batch, and a template
PairTree ==
    << File(<<Seg("a", "css")>>), File(<<Seg("b", "css")>>), File(<<Seg("c", "html")>>) >>

\* two invocations of uploadFolder on the same tree, in one process: each
\* may be called at any time, so the two overlap, or the second starts
\* while tasks of the first, which raised, are still in the pool
InitOverlap ==
    InitWith({ [first |-> Scenario(PairTree, {}, {}),
                second |-> Scenario(PairTree, {}, {})] }, MaxFaultsOverlap)

SpecOverlap == InitOverlap /\ [][Next]_vars

\* the most files a drawn tree holds
MaxTreeFiles == 4

\* the fault budget of a run on a drawn tree
MaxFaultsTrees == 2

\* the paths the drawn trees are made of, in the order walk returns them:
\* a script, a stylesheet of a bundle folder c.module,
\* a bundle folder b.module with a scripted descriptor, a static
\* descriptor beside it, a static descriptor in a folder of the bundle, the
\* bundle's meta.json, another JSON file, a template of the bundle, and a
\* file whose extension is not allowed
TreeUniverse ==
    << File(<<Seg("a", "js")>>),
       File(<<Seg("c", "module"), Seg("module", "css")>>),
       File(<<Seg("b", "module"), FieldsJs>>),
       File(<<Seg("b", "module"), FieldsJson>>),
       File(<<Seg("b", "module"), Seg("sub", ""), FieldsJson>>),
       File(<<Seg("b", "module"), MetaJson>>),
       File(<<Seg("b", "module"), Seg("extra", "json")>>),
       File(<<Seg("b", "module"), Seg("module", "html")>>),
       File(<<Seg("notes", "md")>>) >>

\* the files of the universe that are in S, in walk order
TreeOf(S) ==
    LET keep(f) == f \in S
    IN  SelectSeq(TreeUniverse, keep)

\* what the ignore rules may match: nothing, the scripted descriptor, or the
\* script and the bundle's meta.json
IgnoreChoices ==
    { {},
      { File(<<Seg("b", "module"), FieldsJs>>) },
      { File(<<Seg("a", "js")>>), File(<<Seg("b", "module"), MetaJson>>) } }

\* what the transformer may fail on: nothing, or the scripted descriptor
BadChoices == { {}, { File(<<Seg("b", "module"), FieldsJs>>) } }

\* every tree of at most MaxTreeFiles files of the universe, with the ignore
\* rules and the malformed descriptors that tree can have
TreeScenarios ==
    { Scenario(TreeOf(S), ign, bad) :
        S \in { T \in SUBSET Range(TreeUniverse) : Cardinality(T) <= MaxTreeFiles },
        ign \in IgnoreChoices, bad \in BadChoices }

\* one invocation of uploadFolder on a drawn tree
InitTrees ==
    /\ InitWith({ [first |-> s, second |-> NotCalled] : s \in TreeScenarios }, MaxFaultsTrees)
    /\ input["first"].ignored \subseteq Range(input["first"].walked)
    /\ input["first"].bad \subseteq Range(input["first"].walked)

SpecTrees == InitTrees /\ [][Next]_vars

TypeOK ==
    /\ pendingCount \in 0..Concurrency
    /\ \A r \in Invocations : pc[r] \in {"idle", "main", "retry", "returned", "raised"}

----------------------------------------------------------------------------
(* History *)

\* the tasks ever handed to queue.addAll
Submitted == Range(queue) \cup inflight \cup { s.task : s \in settled }

\* the tasks whose upload() has been invoked
Started == inflight \cup { s.task : s \in settled }

\* the upload of t succeeded or failed transiently
Resolved(t) == \E s \in settled : s.task = t /\ ~isFatalError(s.error)

Succeeded(t) == \E s \in settled : s.task = t /\ s.error = NoError

FailedTransiently(t) == \E s \in settled : s.task = t /\ s.error.kind = "transient"

\* an upload() of invocation r, in the given pass, failed with a fatal error
FatalSeen(r, pass) ==
    \E s \in settled : s.task.inv = r /\ s.task.pass = pass /\ isFatalError(s.error)

\* the tasks the main pass of r makes of category N
CategoryTasks(r, N) == Range(mainTasks(r, N, filesByType[r][N], input[r].src))

\* the category the specification gives a file the classifier keeps
CategoryOf(file) ==
    IF HasModuleFolder(file) THEN "BUNDLE_ASSET"
    ELSE IF getExt(file) \in {"js", "css"} THEN "STYLE_SCRIPT"
    ELSE IF getExt(file) = "html" THEN "TEMPLATE"
    ELSE IF getExt(file) = "json" THEN "DATA"
    ELSE "OTHER"

\* the processing order of the categories
CategoryOrder == <<"OTHER", "BUNDLE_ASSET", "STYLE_SCRIPT", "TEMPLATE", "DATA">>

\* the positions in the returned list that hold file
PositionsOf(list, file) == { k \in DOMAIN list : list[k].file = file }

----------------------------------------------------------------------------
(* Claims *)

\* C1: the category batches go OTHER, BUNDLE_ASSET, STYLE_SCRIPT, TEMPLATE,
\* DATA with a hard barrier: a main-pass task is submitted to the pool in the
\* batch its category has in that order, and only when every task of every
\* earlier category of the same invocation has resolved (its upload
\* succeeded or failed transiently).
C1_CategoryBarrier ==
    \A t \in Submitted :
        t.pass = "main" =>
            /\ CategoryOrder[t.no] = CategoryOf(t.file)
            /\ \A N \in Categories :
                   N < t.no => \A u \in CategoryTasks(t.inv, N) : Resolved(u)

\* C1 witness: a task is in flight while an earlier category held a task
\* that failed transiently and one that succeeded.
C1_Witness ==
    \E t \in inflight :
        /\ t.pass = "main"
        /\ \E u, v \in Submitted :
               /\ u.inv = t.inv /\ v.inv = t.inv
               /\ u.no < t.no /\ v.no < t.no
               /\ FailedTransiently(u) /\ Succeeded(v)

\* C2: at most 10 upload() calls are in flight, main pass and retry pass
\* together, and the pool's count of running tasks is that number, so that a
\* task starts only when fewer than 10 are in flight.
C2_InFlightBound ==
    /\ Cardinality(inflight) <= Ceiling
    /\ pendingCount = Cardinality(inflight)

\* C2 witness: the pool is full and a task waits for a slot.
C2_Witness ==
    /\ Cardinality(inflight) = Ceiling
    /\ queue # <<>>

\* C3: when uploadFolder has returned, no file whose main-pass upload
\* succeeded is in the returned list, and the list is empty when every
\* main-pass upload succeeded.
C3_FirstPassSuccessAbsent ==
    \A r \in Invocations :
        pc[r] = "returned" =>
            /\ \A t \in Started :
                   (t.inv = r /\ t.pass = "main" /\ Succeeded(t))
                       => PositionsOf(results[r], t.file) = {}
            /\ (\A t \in Started : (t.inv = r /\ t.pass = "main") => Succeeded(t))
                   => results[r] = <<>>

\* C3 witness: uploadFolder returned a list that is not empty, after a main
\* pass in which some upload succeeded.
C3_Witness ==
    \E r \in Invocations :
        /\ pc[r] = "returned"
        /\ results[r] # <<>>
        /\ \E t \in Started : t.inv = r /\ t.pass = "main" /\ Succeeded(t)

\* C4: when uploadFolder has returned, a file whose main-pass upload failed
\* transiently and whose retry succeeded is in the returned list exactly
\* once, as {resultType: SUCCESS, error: null, file}.
C4_RetrySuccessReported ==
    \A r \in Invocations :
        pc[r] = "returned" =>
            \A t, u \in Started :
                (/\ t.inv = r /\ t.pass = "main" /\ FailedTransiently(t)
                 /\ u.inv = r /\ u.pass = "retry" /\ u.file = t.file /\ Succeeded(u))
                    => /\ Cardinality(PositionsOf(results[r], t.file)) = 1
                       /\ \A k \in PositionsOf(results[r], t.file) :
                              results[r][k] =
                                  [resultType |-> "SUCCESS", error |-> NoError, file |-> t.file]

\* C4 witness: uploadFolder returned after a retry that succeeded.
C4_Witness ==
    \E r \in Invocations :
        /\ pc[r] = "returned"
        /\ \E u \in Started : u.inv = r /\ u.pass = "retry" /\ Succeeded(u)

\* C5: when uploadFolder has returned, a file whose main-pass upload and
\* whose retry both failed transiently is in the returned list exactly once,
\* as {resultType: FAILURE, error: the retry's error, file}.
C5_RetryFailureReported ==
    \A r \in Invocations :
        pc[r] = "returned" =>
            \A t, u \in Started :
                (/\ t.inv = r /\ t.pass = "main" /\ FailedTransiently(t)
                 /\ u.inv = r /\ u.pass = "retry" /\ u.file = t.file /\ FailedTransiently(u))
                    => /\ Cardinality(PositionsOf(results[r], t.file)) = 1
                       /\ \A k \in PositionsOf(results[r], t.file) :
                              results[r][k] =
                                  [resultType |-> "FAILURE",
                                   error |-> UploadError(u, "transient"),
                                   file |-> t.file]

\* C5 witness: uploadFolder returned after a retry that failed transiently.
C5_Witness ==
    \E r \in Invocations :
        /\ pc[r] = "returned"
        /\ \E u \in Started : u.inv = r /\ u.pass = "retry" /\ FailedTransiently(u)

\* C6: upload() is invoked at most once in the main pass and at most once in
\* the retry pass for a file of an invocation, and once a retry has failed
\* transiently no task for that file waits in the pool or is in flight.
C6_AtMostOneRetry ==
    /\ \A key \in BagToSet(calls) : CopiesIn(key, calls) = 1
    /\ \A u \in Started :
           (u.pass = "retry" /\ FailedTransiently(u))
               => \A t \in Range(queue) \cup inflight :
                      ~(t.inv = u.inv /\ t.file = u.file)

\* C6 witness: a retry has failed transiently and uploadFolder has returned.
C6_Witness ==
    \E u \in Started :
        /\ u.pass = "retry"
        /\ FailedTransiently(u)
        /\ pc[u.inv] = "returned"
        /\ CopiesIn(CallKey(u), calls) = 1

\* an upload() of invocation r failed with a fatal error, in either pass
AnyFatal(r) == FatalSeen(r, "main") \/ FatalSeen(r, "retry")

\* the fields transformer fails on a file of invocation r that gets classified
TransformFails(r) ==
    /\ input[r].called
    /\ \E f \in Range(allowedFiles(input[r].walked, input[r].ignored)) :
           ClassifyThrows(f, input[r].bad)

\* C7 as stated: whenever an upload attempt of an invocation has failed
\* with a fatal error, the invocation returns no list, and the error it
\* raises is the error of that attempt.
C7_RaisesThatError ==
    \A s \in settled :
        isFatalError(s.error) =>
            /\ pc[s.task.inv] # "returned"
            /\ pc[s.task.inv] = "raised" => thrown[s.task.inv] = s.error

\* C7 (amended): whenever an upload attempt of an invocation has failed with
\* a fatal error, the invocation never returns a list, the await it is
\* suspended on is rejected, it eventually raises, and the error it raises
\* is the first fatal error of the invocation; the fatal errors of attempts
\* that settle later are discarded.
C7_RaisesFirstFatal ==
    /\ [](\A r \in Invocations :
             AnyFatal(r) =>
                 /\ pc[r] # "returned"
                 /\ results[r] = <<>>
                 /\ pc[r] \in {"main", "retry"} => batch[r].state = "rejected"
                 /\ pc[r] = "raised" => thrown[r] = firstFatal[r])
    /\ \A r \in Invocations : AnyFatal(r) ~> (pc[r] = "raised")

\* C7 witness: two uploads of an invocation failed with a fatal error and
\* the invocation raised the first.
C7_Witness ==
    \E s, u \in settled :
        /\ s.task.inv = u.task.inv
        /\ s # u
        /\ isFatalError(s.error) /\ isFatalError(u.error)
        /\ pc[s.task.inv] = "raised"
        /\ thrown[s.task.inv] = s.error

\* C8: once a main-pass upload of category N has failed with a fatal error,
\* no task of a later category and no retry task of that invocation is ever
\* submitted, and no retry upload() is invoked.
C8_FatalStopsPipeline ==
    \A s \in settled :
        (s.task.pass = "main" /\ isFatalError(s.error)) =>
            /\ \A t \in Submitted : t.inv = s.task.inv => t.no <= s.task.no
            /\ \A key \in BagToSet(calls) : ~(key.inv = s.task.inv /\ key.pass = "retry")
            /\ pc[s.task.inv] \in {"main", "raised"}

\* C8 witness: an invocation has raised and its pool tasks are all done,
\* after a fatal error in a category that later categories with files
\* follow, with a file recorded in the failures list.
C8_Witness ==
    \E s \in settled :
        /\ s.task.pass = "main" /\ isFatalError(s.error)
        /\ pc[s.task.inv] = "raised"
        /\ failures[s.task.inv] # <<>>
        /\ \E N \in Categories : N > s.task.no /\ filesByType[s.task.inv][N] # <<>>
        /\ queue = <<>> /\ inflight = {}

\* C9: transient errors never escape. An invocation raises only if the
\* fields transformer failed or an upload failed with a fatal error, and an
\* invocation whose classification succeeded eventually returns unless an
\* upload of it fails with a fatal error.
C9_TransientAbsorbed ==
    /\ [](\A r \in Invocations :
             pc[r] = "raised" => (TransformFails(r) \/ AnyFatal(r)))
    /\ \A r \in Invocations :
           (pc[r] = "main") ~> (pc[r] = "returned" \/ AnyFatal(r))

\* C9 witness: an invocation returned after transient failures in the main
\* pass and in the retry pass.
C9_Witness ==
    \E t, u \in Started :
        /\ t.inv = u.inv
        /\ t.pass = "main" /\ FailedTransiently(t)
        /\ u.pass = "retry" /\ FailedTransiently(u)
        /\ pc[t.inv] = "returned"

\* the entry of the failures list for a main-pass task
FailureEntry(t) == [file |-> t.file, destPath |-> t.destPath]

\* C10 as stated: while a TEMPLATE upload is in flight, every file
\* classified BUNDLE_ASSET in that invocation has been uploaded successfully.
C10_BundleUploadedBeforeTemplate ==
    \A t \in inflight :
        (t.pass = "main" /\ t.no = CatTemplate) =>
            \A u \in CategoryTasks(t.inv, CatModule) : Succeeded(u)

\* C10 (amended): while a TEMPLATE upload is in flight, the main-pass upload
\* of every file classified BUNDLE_ASSET in that invocation has finished:
\* the file has been uploaded successfully, or its upload failed transiently,
\* it is recorded in the failures list and no retry of it has been submitted.
C10_BundleAttemptedBeforeTemplate ==
    \A t \in inflight :
        (t.pass = "main" /\ t.no = CatTemplate) =>
            \A u \in CategoryTasks(t.inv, CatModule) :
                \/ Succeeded(u)
                \/ /\ FailedTransiently(u)
                   /\ FailureEntry(u) \in Range(failures[t.inv])
                   /\ \A v \in Submitted : ~(v.inv = t.inv /\ v.pass = "retry")

\* C10 witness: a TEMPLATE upload is in flight while a BUNDLE_ASSET file has
\* failed transiently and another has been uploaded.
C10_Witness ==
    \E t \in inflight :
        /\ t.pass = "main" /\ t.no = CatTemplate
        /\ \E u, v \in CategoryTasks(t.inv, CatModule) :
               FailedTransiently(u) /\ Succeeded(v)

----------------------------------------------------------------------------
(* Classification and tasks, on the drawn trees *)

\* the invocations of uploadFolder the process makes
Called == { r \in Invocations : input[r].called }

\* walk(src) returned the file and it passes the extension allow-list and
\* the ignore rules
Eligible(r, f) ==
    /\ f \in Range(input[r].walked)
    /\ isAllowedExtension(f)
    /\ f \notin input[r].ignored

\* the file the upload task of a walked file carries: the transformer's
\* output for a fields.js of a bundle folder, the file itself otherwise
TaskFileOf(f) ==
    IF HasModuleFolder(f) /\ fileName(f) = FieldsJs THEN convertFieldsJs(f) ELSE f

\* a fields.js is on the disk in the directory of the file
ScriptedSibling(r, f) ==
    \E g \in Range(input[r].walked) : dirname(g) = dirname(f) /\ fileName(g) = FieldsJs

\* the specification's rule for what the classifier keeps: everything but
\* the JSON files of a bundle folder that are neither meta.json nor a
\* fields.json without a fields.js beside it
Kept(r, f) ==
    \/ ~HasModuleFolder(f)
    \/ getExt(f) # "json"
    \/ fileName(f) = MetaJson
    \/ fileName(f) = FieldsJson /\ ~ScriptedSibling(r, f)

\* where the category lists of r hold x: <<list, position>>
Placements(r, x) ==
    { p \in Categories \X (1..Len(input[r].walked)) :
        /\ p[2] \in DOMAIN filesByType[r][p[1]]
        /\ filesByType[r][p[1]][p[2]] = x }

\* the tasks of r, in the given pass, that carry x
TasksOf(r, pass, x) ==
    { t \in Submitted : t.inv = r /\ t.pass = pass /\ t.file = x }

\* how many times upload() was called for x in the given pass of r
UploadCalls(r, pass, x) == CopiesIn([inv |-> r, pass |-> pass, file |-> x], calls)

\* the classification of r has run and did not throw
Classified(r) == pc[r] \in {"main", "retry", "returned"} \/ AnyFatal(r)

\* C11 as stated: when uploadFolder has returned, every eligible file is in
\* exactly one place of the category lists, has exactly one main-pass task
\* whose upload ran exactly once, and at most one retry task.
C11_OneTaskPerEligibleFile ==
    \A r \in Invocations :
        pc[r] = "returned" =>
            \A f \in Range(input[r].walked) :
                Eligible(r, f) =>
                    /\ Cardinality(Placements(r, TaskFileOf(f))) = 1
                    /\ Cardinality(TasksOf(r, "main", TaskFileOf(f))) = 1
                    /\ UploadCalls(r, "main", TaskFileOf(f)) = 1
                    /\ Cardinality(TasksOf(r, "retry", TaskFileOf(f))) <= 1

\* C11 (amended): an eligible file is never in two places of the category
\* lists, never has two main-pass tasks or two retry tasks, and upload() never
\* runs twice for it in a pass. An eligible file the classifier drops (a JSON
\* file of a bundle folder other than meta.json and a fields.json without a
\* fields.js beside it) is in no list and has no task. Once classification
\* has run without throwing, every other eligible file is in exactly one
\* place of the lists (a fields.js of a bundle folder by the transformer's
\* output), and when uploadFolder has returned it has exactly one main-pass
\* task, whose upload ran exactly once.
C11_OneTaskPerKeptFile ==
    \A r \in Called :
        \A f \in Range(input[r].walked) :
            Eligible(r, f) =>
                LET x == TaskFileOf(f)
                IN  /\ Cardinality(Placements(r, x)) <= 1
                    /\ Cardinality(TasksOf(r, "main", x)) <= 1
                    /\ Cardinality(TasksOf(r, "retry", x)) <= 1
                    /\ UploadCalls(r, "main", x) <= 1
                    /\ UploadCalls(r, "retry", x) <= 1
                    /\ ~Kept(r, f) => /\ Placements(r, x) = {}
                                      /\ TasksOf(r, "main", x) = {}
                                      /\ TasksOf(r, "retry", x) = {}
                    /\ (Kept(r, f) /\ Classified(r)) => Cardinality(Placements(r, x)) = 1
                    /\ (Kept(r, f) /\ pc[r] = "returned") =>
                           /\ Cardinality(TasksOf(r, "main", x)) = 1
                           /\ UploadCalls(r, "main", x) = 1
                           /\ \A t \in TasksOf(r, "main", x) : Resolved(t)

\* C11 witness: uploadFolder has returned on a tree with a fields.js whose
\* output was uploaded, an eligible file the classifier dropped, and a file
\* that was uploaded once in each pass.
C11_Witness ==
    \E r \in Called :
        /\ pc[r] = "returned"
        /\ \E f, g, h \in Range(input[r].walked) :
               /\ Eligible(r, f) /\ Eligible(r, g) /\ Eligible(r, h)
               /\ TaskFileOf(f) # f /\ UploadCalls(r, "main", TaskFileOf(f)) = 1
               /\ ~Kept(r, g)
               /\ UploadCalls(r, "main", h) = 1 /\ UploadCalls(r, "retry", h) = 1

\* walk(src) returned the file and the allow-list or the ignore filter
\* rejects it
Excluded(r, f) ==
    /\ f \in Range(input[r].walked)
    /\ ~isAllowedExtension(f) \/ f \in input[r].ignored

\* C12: a file that walk returned and that fails the extension allow-list or
\* is rejected by the ignore filter is in no category list, has no task in
\* the main pass or the retry pass, is never passed to upload(), and is in no
\* entry of the failures list or of the returned list; the same holds of the
\* transformer's output for it.
C12_ExcludedNeverUploaded ==
    \A r \in Called :
        \A f \in Range(input[r].walked) :
            Excluded(r, f) =>
                \A x \in {f, TaskFileOf(f)} :
                    /\ Placements(r, x) = {}
                    /\ \A t \in Submitted : t.inv = r => t.file # x
                    /\ UploadCalls(r, "main", x) = 0
                    /\ UploadCalls(r, "retry", x) = 0
                    /\ \A k \in DOMAIN failures[r] : failures[r][k].file # x
                    /\ \A k \in DOMAIN results[r] : results[r][k].file # x

\* C12 witness: uploadFolder has returned a non-empty list on a tree with a
\* file whose extension is not allowed, a file the ignore rules match, and an
\* eligible file.
C12_Witness ==
    \E r \in Called :
        /\ pc[r] = "returned"
        /\ results[r] # <<>>
        /\ \E f, g, h \in Range(input[r].walked) :
               /\ ~isAllowedExtension(f)
               /\ isAllowedExtension(g) /\ g \in input[r].ignored
               /\ Eligible(r, h) /\ UploadCalls(r, "main", h) = 1

\* the transformer is run on a fields.js of a bundle folder and fails: the
\* file is eligible and malformed
ConversionFails(r) ==
    \E f \in Range(input[r].walked) :
        /\ Eligible(r, f)
        /\ HasModuleFolder(f) /\ fileName(f) = FieldsJs
        /\ f \in input[r].bad

\* C13: in an invocation where the transformer fails on a fields.js,
\* uploadFolder raises the transformer's error, naming that file, as soon as
\* it is called, and no task of the invocation is ever submitted to the pool
\* and upload() is never called for any file of the invocation.
C13_TransformFailureAborts ==
    \A r \in Called :
        ConversionFails(r) =>
            /\ pc[r] \in {"idle", "raised"}
            /\ pc[r] = "raised" =>
                   /\ thrown[r].kind = "fields"
                   /\ thrown[r].file \in input[r].bad
            /\ \A t \in Submitted : t.inv # r
            /\ \A k \in BagToSet(calls) : k.inv # r
            /\ results[r] = <<>>

\* C13 witness: uploadFolder has raised the transformer's error on a tree
\* that also holds an eligible file outside the bundle and a file of another
\* bundle.
C13_Witness ==
    \E r \in Called :
        /\ pc[r] = "raised"
        /\ thrown[r].kind = "fields"
        /\ \E f, g \in Range(input[r].walked) :
               /\ Eligible(r, f) /\ ~HasModuleFolder(f)
               /\ Eligible(r, g) /\ HasModuleFolder(g) /\ dirname(g) # dirname(thrown[r].file)

\* C14: an eligible file with a path segment ending in .module is in none of
\* the lists OTHER, STYLE_SCRIPT, TEMPLATE and DATA, whatever its extension,
\* neither itself nor by the transformer's output, and no task of those
\* batches carries it: it is in the BUNDLE_ASSET list or in no list.
C14_BundleMembershipWins ==
    \A r \in Called :
        \A f \in Range(input[r].walked) :
            (Eligible(r, f) /\ HasModuleFolder(f)) =>
                \A x \in {f, TaskFileOf(f)} :
                    /\ \A p \in Placements(r, x) : p[1] = CatModule
                    /\ \A t \in TasksOf(r, "main", x) : t.no = CatModule

\* C14 witness: the BUNDLE_ASSET list holds a stylesheet, a template and the
\* output for a script, all of bundle folders, and a JSON file of a bundle
\* folder is in no list.
C14_Witness ==
    \E r \in Called :
        \E f, g, h, d \in Range(input[r].walked) :
            /\ HasModuleFolder(f) /\ getExt(f) = "css" /\ Placements(r, f) # {}
            /\ HasModuleFolder(g) /\ getExt(g) = "html" /\ Placements(r, g) # {}
            /\ HasModuleFolder(h) /\ getExt(h) = "js" /\ Placements(r, TaskFileOf(h)) # {}
            /\ HasModuleFolder(d) /\ Eligible(r, d) /\ Placements(r, d) = {} /\ Classified(r)

\* the bundle folder of a file: the path down to its first segment ending in
\* .module
moduleFolder(file) ==
    LET k == CHOOSE n \in 1..Len(file) :
                 /\ IsModuleFolder(file[n])
                 /\ \A j \in 1..(n - 1) : ~IsModuleFolder(file[j])
    IN  SubSeq(file, 1, k)

\* f is a fields.js and g a fields.json of the same bundle folder, both on
\* the disk
BothDescriptors(r, f, g) ==
    /\ f \in Range(input[r].walked) /\ g \in Range(input[r].walked)
    /\ HasModuleFolder(f) /\ HasModuleFolder(g)
    /\ moduleFolder(f) = moduleFolder(g)
    /\ fileName(f) = FieldsJs /\ fileName(g) = FieldsJson

\* upload() was never called for x and no list and no task holds it
NeverUploaded(r, x) ==
    /\ Placements(r, x) = {}
    /\ \A t \in Submitted : t.inv = r => t.file # x
    /\ UploadCalls(r, "main", x) = 0
    /\ UploadCalls(r, "retry", x) = 0

\* C15 as stated: when a bundle folder holds a fields.js and a fields.json,
\* wherever in the bundle folder each lies, the fields.json is in no list and
\* is never uploaded.
C15_StaticDroppedAnywhere ==
    \A r \in Called :
        \A f, g \in Range(input[r].walked) :
            BothDescriptors(r, f, g) => NeverUploaded(r, g)

\* C15 (amended): when a directory of a bundle folder holds a fields.js and
\* a fields.json, the fields.json is in no list and is never uploaded,
\* whether the fields.js is eligible or not. When the fields.js is eligible
\* and classification has run without throwing, the transformer's output for
\* it is in the BUNDLE_ASSET list exactly once and in no other list, and when
\* uploadFolder has returned it was uploaded exactly once in the main pass. A
\* fields.json in another directory of the bundle folder is not dropped.
C15_StaticSiblingDropped ==
    \A r \in Called :
        \A f, g \in Range(input[r].walked) :
            (BothDescriptors(r, f, g) /\ dirname(f) = dirname(g)) =>
                /\ NeverUploaded(r, g)
                /\ (Eligible(r, f) /\ Classified(r)) =>
                       /\ Cardinality(Placements(r, convertFieldsJs(f))) = 1
                       /\ \A p \in Placements(r, convertFieldsJs(f)) : p[1] = CatModule
                /\ (Eligible(r, f) /\ pc[r] = "returned") =>
                       UploadCalls(r, "main", convertFieldsJs(f)) = 1

\* C15 witness: uploadFolder has returned on a tree where a fields.js and a
\* fields.json lie in the same directory of a bundle folder, both eligible,
\* and the transformer's output was uploaded.
C15_Witness ==
    \E r \in Called :
        /\ pc[r] = "returned"
        /\ \E f, g \in Range(input[r].walked) :
               /\ BothDescriptors(r, f, g) /\ dirname(f) = dirname(g)
               /\ Eligible(r, f) /\ Eligible(r, g)
               /\ \E t \in TasksOf(r, "main", convertFieldsJs(f)) : Succeeded(t)

\* no eligible file of the bundle folder of g is a fields.js
NoEligibleScripted(r, g) ==
    \A f \in Range(input[r].walked) :
        (Eligible(r, f) /\ HasModuleFolder(f) /\ moduleFolder(f) = moduleFolder(g)) =>
            fileName(f) # FieldsJs

\* C16: an eligible fields.json of a bundle folder none of whose eligible
\* files is a fields.js is, once classification has run, in the BUNDLE_ASSET
\* list exactly once, unchanged, and in no other list, and when uploadFolder
\* has returned it has exactly one main-pass task.
C16_StaticKeptWithoutScripted ==
    \A r \in Called :
        \A g \in Range(input[r].walked) :
            (/\ Eligible(r, g) /\ HasModuleFolder(g) /\ fileName(g) = FieldsJson
             /\ NoEligibleScripted(r, g)) =>
                /\ Classified(r) =>
                       /\ Cardinality(Placements(r, g)) = 1
                       /\ \A p \in Placements(r, g) : p[1] = CatModule
                /\ pc[r] = "returned" => Cardinality(TasksOf(r, "main", g)) = 1

\* C17: an eligible JSON file of a bundle folder whose name is neither
\* meta.json nor fields.json is in none of the five lists, has no task in the
\* main pass or the retry pass, and is never passed to upload().
C17_OtherBundleJsonDropped ==
    \A r \in Called :
        \A f \in Range(input[r].walked) :
            (/\ Eligible(r, f) /\ HasModuleFolder(f) /\ getExt(f) = "json"
             /\ fileName(f) \notin {MetaJson, FieldsJson}) =>
                /\ NeverUploaded(r, f)
                /\ \A k \in DOMAIN results[r] : results[r][k].file # f

\* C17 witness: uploadFolder has returned on a tree with such a JSON file,
\* after uploading the meta.json of the same bundle folder.
C17_Witness ==
    \E r \in Called :
        /\ pc[r] = "returned"
        /\ \E f, g \in Range(input[r].walked) :
               /\ Eligible(r, f) /\ HasModuleFolder(f) /\ getExt(f) = "json"
               /\ fileName(f) \notin {MetaJson, FieldsJson}
               /\ Eligible(r, g) /\ fileName(g) = MetaJson
               /\ moduleFolder(f) = moduleFolder(g)
               /\ UploadCalls(r, "main", g) = 1

\* C18: the retry batch comes after the five main batches have drained: when
\* a retry task is queued or in flight or has settled, the loop over the
\* categories is over, no main-pass task of the same invocation is queued or
\* in flight, every task of every category, DATA included, has resolved, and
\* the retry task is for an entry of the failures list.
C18_RetryAfterMainDrained ==
    \A t \in Submitted :
        t.pass = "retry" =>
            /\ i[t.inv] > CatJson
            /\ \A u \in Range(queue) \cup inflight : ~(u.inv = t.inv /\ u.pass = "main")
            /\ \A N \in Categories : \A u \in CategoryTasks(t.inv, N) : Resolved(u)
            /\ FailureEntry(t) \in Range(failures[t.inv])

\* C18 witness: a retry upload is in flight for a file of the first batch,
\* in an invocation whose DATA batch held a file.
C18_Witness ==
    \E t \in inflight :
        /\ t.pass = "retry"
        /\ CategoryTasks(t.inv, CatJson) # {}
        /\ \E u \in CategoryTasks(t.inv, CatOther) : u.file = t.file /\ FailedTransiently(u)

\* C19: hasUploadErrors of the list uploadFolder returned is true exactly
\* when an entry of the list has resultType FAILURE; it is false of the empty
\* list and of a list whose entries are all SUCCESS.
C19_HasUploadErrorsIffFailure ==
    \A r \in Invocations :
        pc[r] = "returned" =>
            /\ hasUploadErrors(results[r]) <=>
                   \E k \in DOMAIN results[r] : results[r][k].resultType = "FAILURE"
            /\ results[r] = <<>> => ~hasUploadErrors(results[r])
            /\ (\A k \in DOMAIN results[r] : results[r][k].resultType = "SUCCESS") =>
                   ~hasUploadErrors(results[r])

\* C19 witness: uploadFolder has returned a list with a SUCCESS entry
\* followed by a FAILURE entry, and hasUploadErrors is true of it.
C19_Witness ==
    \E r \in Invocations :
        /\ pc[r] = "returned"
        /\ hasUploadErrors(results[r])
        /\ \E j, k \in DOMAIN results[r] :
               /\ j < k
               /\ results[r][j].resultType = "SUCCESS"
               /\ results[r][k].resultType = "FAILURE"

\* the tasks of the one batch of the invocation on CancelTree
CancelTasks == Range(mainTasks("first", CatCssAndJs, CancelTree, SrcRoot))

\* C20: a fatal error does not cancel the tasks submitted to the pool. When
\* the batch has been rejected by a fatal error, the next step is
\* uploadFolder raising; a task of the batch is never taken out of the pool;
\* and once an upload of the batch has failed with a fatal error, every task
\* of the batch, in flight or waiting for a slot, has eventually been started.
C20_FatalDoesNotCancel ==
    /\ [][\A r \in Called :
            (pc[r] = "main" /\ batch[r].state = "rejected") => pc'[r] = "raised"]_vars
    /\ [][\A t \in CancelTasks : t \in Submitted => t \in Submitted']_vars
    /\ FatalSeen("first", "main") ~> (CancelTasks \subseteq Started)

\* C20 witness: uploadFolder has raised the fatal error of a main-pass
\* upload while uploads of the batch are in flight and a task still waits
\* for a slot.
C20_Witness ==
    /\ pc["first"] = "raised"
    /\ FatalSeen("first", "main")
    /\ thrown["first"] = firstFatal["first"]
    /\ queue # <<>>
    /\ inflight # {}

----------------------------------------------------------------------------
(* The failures list *)

\* the main-pass tasks of r whose upload failed transiently
TransientMain(r) ==
    { t \in Started : t.inv = r /\ t.pass = "main" /\ FailedTransiently(t) }

\* the retry tasks of r in the pool or settled
RetrySubmitted(r) == { t \in Submitted : t.inv = r /\ t.pass = "retry" }

\* C21: in every interleaving of the main-pass uploads, the failures list of
\* an invocation holds exactly one entry {file, destPath} for each main-pass
\* upload that failed transiently, with the destination path of that attempt,
\* and no other entry; and once the five batches have drained the retry pass
\* has submitted exactly one task per entry, the k-th for the k-th entry,
\* with the file and the destination path of the entry.
C21_FailuresListExact ==
    \A r \in Called :
        /\ \A t \in TransientMain(r) :
               Cardinality({ k \in DOMAIN failures[r] : failures[r][k] = FailureEntry(t) }) = 1
        /\ \A k \in DOMAIN failures[r] :
               /\ \E t \in TransientMain(r) : failures[r][k] = FailureEntry(t)
               /\ failures[r][k].destPath = DestPath(input[r].src, failures[r][k].file)
        /\ Len(failures[r]) = Cardinality(TransientMain(r))
        /\ pc[r] \in {"retry", "returned"} =>
               /\ Cardinality(RetrySubmitted(r)) = Len(failures[r])
               /\ \A k \in DOMAIN failures[r] :
                      \E t \in RetrySubmitted(r) :
                          t.idx = k /\ FailureEntry(t) = failures[r][k]

\* C21 witness: the retry pass has been submitted for a failures list of two
\* entries or more, pushed by uploads of one batch that finished in another
\* order than they were started.
C21_Witness ==
    \E r \in Called :
        /\ pc[r] = "retry"
        /\ RetrySubmitted(r) # {}
        /\ \E j, k \in DOMAIN failures[r] :
               \E u, v \in TransientMain(r) :
                   /\ j < k
                   /\ failures[r][j] = FailureEntry(u)
                   /\ failures[r][k] = FailureEntry(v)
                   /\ u.no = v.no /\ u.idx > v.idx

----------------------------------------------------------------------------
(* Two invocations on the one pool *)

\* the files the invocations of the process walk
WalkedFiles == UNION { Range(input[r].walked) : r \in Called }

\* C22: the failures list and the returned list are per invocation, on the
\* one pool of the process. A transient failure of a main-pass upload of an
\* invocation is recorded once in the failures list of that invocation; and
\* an invocation whose own main-pass upload of a file has not failed
\* transiently has no entry for the file in its failures list, no retry task
\* and no retry upload for it, and no entry for it in the list it returns,
\* whatever happened to the upload of the same file by the other invocation.
C22_FailuresPerInvocation ==
    \A q \in Called :
        /\ \A t \in TransientMain(q) :
               Cardinality({ k \in DOMAIN failures[q] : failures[q][k] = FailureEntry(t) }) = 1
        /\ \A f \in WalkedFiles :
               (\A t \in TransientMain(q) : t.file # f) =>
                   /\ \A k \in DOMAIN failures[q] : failures[q][k].file # f
                   /\ \A t \in RetrySubmitted(q) : t.file # f
                   /\ UploadCalls(q, "retry", f) = 0
                   /\ \A k \in DOMAIN results[q] : results[q][k].file # f

\* C22 witness: an invocation has raised a fatal error and an upload it left
\* in the pool is still in flight, while the other invocation is retrying a
\* file whose upload by the first invocation did not fail transiently.
C22_Witness ==
    \E r, q \in Called :
        /\ r # q
        /\ pc[r] = "raised" /\ FatalSeen(r, "main")
        /\ \E u \in inflight : u.inv = r
        /\ pc[q] = "retry"
        /\ \E v \in inflight :
               /\ v.inv = q /\ v.pass = "retry"
               /\ \A t \in TransientMain(r) : t.file # v.file

====
